---- MODULE Spec2Model ----
(***************************************************************************)
(* A model of the web-server crate: the thread pool (thread_pool.rs), the  *)
(* dispatcher (main.rs) and the route index (router.rs).                   *)
(*                                                                         *)
(* Strings are sequences of one-character strings, so that the substring   *)
(* tests, splits and formatting of the source are computed, not assumed.   *)
(***************************************************************************)
EXTENDS Integers, Sequences, FiniteSets, TLC

(***************************************************************************)
(* Bounds of the model.                                                    *)
(***************************************************************************)
\* the largest size passed to ThreadPool::new
MaxSize == 2
\* the largest number of jobs handed to ThreadPool::execute
MaxJobs == 3

(***************************************************************************)
(* Characters and string helpers.                                          *)
(***************************************************************************)
CR == "\r"
LF == "\n"
\* a character outside ASCII (U+00E9), two bytes long in UTF-8
EAcute == "e-acute"

RECURSIVE Concat(_)
\* concatenation of a sequence of strings
Concat(ss) == IF ss = <<>> THEN <<>> ELSE Head(ss) \o Concat(Tail(ss))

\* str::as_bytes / String::len: the UTF-8 encoding of one character
Utf8(c) == IF c = EAcute THEN <<"0xC3", "0xA9">> ELSE <<c>>

\* str::as_bytes: the bytes of a string
as_bytes(s) == Concat([i \in 1..Len(s) |-> Utf8(s[i])])

\* String::len: the length of a string in bytes, not in characters
StrLen(s) == Len(as_bytes(s))

DigitChar == <<"0", "1", "2", "3", "4", "5", "6", "7", "8", "9">>

RECURSIVE ToDecimal(_)
\* Display for usize, as format!("{}", n) prints it
ToDecimal(n) ==
    IF n < 10 THEN <<DigitChar[n + 1]>>
    ELSE ToDecimal(n \div 10) \o <<DigitChar[(n % 10) + 1]>>

\* char::is_whitespace, on the characters of the model
IsWhitespace(c) == c \in {" ", "\t", CR, LF}

RECURSIVE split_whitespace(_)
\* str::split_whitespace: the maximal runs of non-whitespace characters
split_whitespace(s) ==
    IF s = <<>> THEN <<>>
    ELSE IF IsWhitespace(Head(s)) THEN split_whitespace(Tail(s))
    ELSE LET stops == {i \in 1..Len(s) : IsWhitespace(s[i])}
             n == IF stops = {} THEN Len(s)
                  ELSE (CHOOSE i \in stops : \A k \in stops : i <= k) - 1
         IN  <<SubSeq(s, 1, n)>> \o split_whitespace(SubSeq(s, n + 1, Len(s)))

(***************************************************************************)
(* The dispatcher: handle_connection and handle_route of main.rs.          *)
(***************************************************************************)
\* values that are no text: a one-element sequence whose element is no character
NoLine == <<"NoLine">>
IoError == <<"IoError">>
ReadErr == <<"ReadErr">>

\* BufRead::lines().next() on the stream: None at end of input, an error when
\* the read fails, else the first line without its "\n" or "\r\n"
LinesNext(conn) ==
    IF conn.ioErr THEN IoError
    ELSE IF conn.data = <<>> THEN NoLine
    ELSE LET d == conn.data
             nl == {i \in 1..Len(d) : d[i] = LF}
         IN  IF nl = {} THEN d
             ELSE LET e == CHOOSE i \in nl : \A k \in nl : i <= k
                      raw == SubSeq(d, 1, e - 1)
                  IN  IF raw # <<>> /\ raw[Len(raw)] = CR
                      THEN SubSeq(raw, 1, Len(raw) - 1)
                      ELSE raw

StatusOk == <<"H", "T", "T", "P", "/", "1", ".", "1", " ", "2", "0", "0", " ", "O", "K">>
NotFoundResponse ==
    <<"H", "T", "T", "P", "/", "1", ".", "1", " ", "4", "0", "4", " ",
      "N", "O", "T", " ", "F", "O", "U", "N", "D", CR, LF, CR, LF>>
ContentLengthHeader ==
    <<CR, LF, "C", "o", "n", "t", "e", "n", "t", "-", "L", "e", "n", "g", "t", "h", ":", " ">>
BlankLine == <<CR, LF, CR, LF>>

\* the result of a handler that panicked at the given source line: nothing
\* was written to the stream
Panicked(line) == [panicked |-> TRUE, line |-> line, written |-> <<>>]
\* the result of a handler that returned after writing the bytes
Returned(bytes) == [panicked |-> FALSE, line |-> 0, written |-> bytes]

\* the number of characters, contents.chars().count(), where the source
\* has contents.len()
ContentLengthChars(contents) == Len(contents)
\* contents.len() in handle_route, the number that follows Content-Length
ContentLength(contents) == StrLen(contents)

\* handle_route: `rd` is what std::fs::read_to_string(path) gives, the text
\* of the file or ReadErr; the value is the response, or ReadErr where the
\* unwrap panics
handle_route(path, rd) ==
    IF rd = ReadErr THEN ReadErr
    ELSE StatusOk \o ContentLengthHeader \o ToDecimal(ContentLength(rd))
         \o BlankLine \o rd

\* handle_connection on the stream `conn`, with the route index `rts`, the
\* result `rd` of reading the mapped file and whether the write succeeds
handle_connection(conn, rts, rd, wr) ==
    LET first == LinesNext(conn) IN
    IF first \in {NoLine, IoError} THEN Panicked(42)
    ELSE LET toks == split_whitespace(first) IN
         IF Len(toks) = 0 THEN Panicked(47)
         ELSE IF Len(toks) = 1 THEN Panicked(48)
         ELSE LET path == toks[2]
                  response == IF path \in DOMAIN rts
                              THEN handle_route(rts[path], rd)
                              ELSE NotFoundResponse
              IN  IF response = ReadErr THEN Panicked(65)
                  ELSE IF ~wr THEN Panicked(61)
                  ELSE Returned(as_bytes(response))

\* what read_to_string may give for a mapped file
ReadResults ==
    { <<>>,
      <<"h", "i">>,
      <<"h", EAcute>>,
      <<"0", "1", "2", "3", "4", "5", "6", "7", "8", "9">>,
      ReadErr }

PagesIndexHtml ==
    <<"p", "a", "g", "e", "s", "/", "i", "n", "d", "e", "x", ".", "h", "t", "m", "l">>

\* the streams the acceptor hands to the pool
GetRoot == <<"G", "E", "T", " ", "/", " ", "H", "T", "T", "P", "/", "1", ".", "1", CR, LF>>
GetOnly == <<"G", "E", "T", CR, LF>>
Conn(data) == [data |-> data, ioErr |-> FALSE]
PoolConns == {Conn(GetRoot), Conn(GetOnly), Conn(<<>>)}

\* the route index of a pages directory that holds index.html alone
RootOnlyRoutes == (<<"/">> :> PagesIndexHtml)

(***************************************************************************)
(* The route index: router.rs.  A path is a sequence of components, each a *)
(* string; the working directory is left out (strip_prefix removes it).    *)
(***************************************************************************)
\* the largest number of files under pages/
MaxFiles == 3

Pages == <<"p", "a", "g", "e", "s">>
IndexHtml == <<"i", "n", "d", "e", "x", ".", "h", "t", "m", "l">>
Html == <<"h", "t", "m", "l">>
\* a byte that is no UTF-8: a name that holds it has no &str form
BadByte == "0xFF"
NotUtf8 == <<"NotUtf8">>

\* the files a pages directory may hold
CandidateFiles ==
    { <<Pages, IndexHtml>>,
      <<Pages, <<"a", "b", "o", "u", "t", ".", "h", "t", "m", "l">> >>,
      <<Pages, <<"a">>, IndexHtml>>,
      <<Pages, <<"a", ".", "h", "t", "m", "l">> >>,
      <<Pages, <<"m", "y", "i", "n", "d", "e", "x", ".", "h", "t", "m", "l">> >>,
      <<Pages, <<"a", "s", "s", "e", "t", "s">>, <<"l", "o", "g", "o", ".", "s", "v", "g">> >>,
      <<Pages, Html, <<"l", "o", "g", "o", ".", "s", "v", "g">> >>,
      <<Pages, <<"s", "u", "b", "p", "a", "g", "e", "s">>, <<"x">> >>,
      <<Pages, <<"n", BadByte>> >>,
      <<Pages, <<"d", BadByte>>, <<"x">> >> }

Trees == {t \in SUBSET CandidateFiles : Cardinality(t) <= MaxFiles}

\* p is a proper prefix of the path f
Under(f, p) == Len(f) > Len(p) /\ SubSeq(f, 1, Len(p)) = p
\* Path::read_dir: the entries of the directory `dir` in the tree `t`
Entries(t, dir) == {SubSeq(f, 1, Len(dir) + 1) : f \in {g \in t : Under(g, dir)}}
\* Path::is_dir
is_dir(t, e) == \E f \in t : Under(f, e)
\* the directories of the tree, pages itself included
Dirs(t) == ({<<Pages>>} \cup {SubSeq(f, 1, n) : f \in t, n \in 1..2}) \ t

RECURSIVE JoinPath(_)
\* the text of a path: its components with "/" between them
JoinPath(comps) ==
    IF Len(comps) = 1 THEN comps[1]
    ELSE comps[1] \o <<"/">> \o JoinPath(Tail(comps))

\* Path::to_str: None when the path is no UTF-8
to_str(path) ==
    IF \E i \in 1..Len(path) : \E k \in 1..Len(path[i]) : path[i][k] = BadByte
    THEN NotUtf8
    ELSE JoinPath(path)

\* str::rfind in the place of find: the index of the last occurrence
FindLast(s, pat) ==
    LET n == Len(pat)
        at == {i \in 1..(Len(s) - n + 1) : SubSeq(s, i, i + n - 1) = pat}
    IN  IF at = {} THEN 0 ELSE CHOOSE i \in at : \A k \in at : k <= i

\* str::find: the index of the first occurrence of pat in s (from 1), 0 for None
Find(s, pat) ==
    LET n == Len(pat)
        at == {i \in 1..(Len(s) - n + 1) : SubSeq(s, i, i + n - 1) = pat}
    IN  IF at = {} THEN 0 ELSE CHOOSE i \in at : \A k \in at : i <= k

\* str::contains
Contains(s, pat) == Find(s, pat) # 0

RECURSIVE trim_start_matches(_, _)
\* str::trim_start_matches: every leading repetition of pat is removed
trim_start_matches(s, pat) ==
    IF Len(pat) > 0 /\ Len(s) >= Len(pat) /\ SubSeq(s, 1, Len(pat)) = pat
    THEN trim_start_matches(SubSeq(s, Len(pat) + 1, Len(s)), pat)
    ELSE s

\* remove_first_occurrence of router.rs
remove_first_occurrence(input, pattern) ==
    LET index == Find(input, pattern) IN
    IF index # 0
    THEN LET rest == SubSeq(input, index, Len(input))
             result_str == trim_start_matches(rest, pattern)
         IN  IF result_str = <<>> THEN <<"/">> ELSE result_str
    ELSE input

\* no call of remove_first_occurrence is being looked at
NoCall == [input |-> <<>>, pattern |-> <<>>, result |-> <<>>, done |-> FALSE]

\* Path::file_stem of a file name: the name up to its last ".", the whole
\* name when it has no "." or only a leading one
file_stem(name) ==
    LET dots == {i \in 1..Len(name) : name[i] = "."}
        last == IF dots = {} THEN 0 ELSE CHOOSE i \in dots : \A k \in dots : k <= i
    IN  IF last <= 1 THEN name ELSE SubSeq(name, 1, last - 1)

\* Path::with_extension(""): the file name is replaced by its stem
with_extension_empty(path) ==
    [path EXCEPT ![Len(path)] = file_stem(path[Len(path)])]

\* an insert that leaves the value of a key that is already there
MapInsertKeepFirst(map, k, v) == map @@ (k :> v)
\* HashMap::insert: a later insert under a key replaces the earlier one
MapInsert(map, k, v) == (k :> v) @@ map

\* the test `p.contains("index.html")` of read_path, on the whole path
IsIndexFile(path, p) == Contains(p, IndexHtml)

\* the key under which read_path inserts the file `path` whose text is `p`,
\* in the directory whose key is root_page
RouteKey(path, p, root_page) ==
    IF IsIndexFile(path, p) THEN root_page
    ELSE LET page == IF Contains(p, Html) THEN with_extension_empty(path)
                     ELSE path
         IN  remove_first_occurrence(to_str(page), Pages)

\* the streams the dispatcher is given
ServeConns ==
    { Conn(GetRoot),
      Conn(<<"G", "E", "T", " ", "/", "a", "b", "o", "u", "t", " ",
             "H", "T", "T", "P", "/", "1", ".", "1", CR, LF>>),
      Conn(<<"G", "E", "T", " ", "/", "a", " ", "H", "T", "T", "P", "/", "1", ".", "1", CR, LF>>),
      Conn(<<"G", "E", "T", " ", "/", "a", "/", " ", "H", "T", "T", "P", "/", "1", ".", "1", CR, LF>>),
      Conn(<<"G", "E", "T", " ", "/", "m", "i", "s", "s", "i", "n", "g", " ",
             "H", "T", "T", "P", "/", "1", ".", "1", CR, LF>>),
      Conn(<<" ", "G", "E", "T", " ", " ", "/", " ", LF>>),
      Conn(GetOnly),
      Conn(<<CR, LF>>),
      Conn(<<>>),
      [data |-> GetRoot, ioErr |-> TRUE] }

(***************************************************************************)
(* State.                                                                  *)
(***************************************************************************)
VARIABLES
    size,        \* the argument of ThreadPool::new
    poolState,   \* "none", "spawning", "alive", "dropping", "dropped",
                 \* "ctor_panicked", "drop_panicked"
    acceptor,    \* the thread that calls execute: "running" or "panicked"
    sender,      \* the sending side: "none", "open", "dropped"
    nextId,      \* the loop variable of ThreadPool::new
    pc,          \* worker id -> "lock", "recv", "exec", "done", "panicked"
    cur,         \* worker id -> the job it holds, 0 for none
    mutex,       \* the worker that holds the receiver's mutex, or NoWorker
    queue,       \* the channel: ids of the jobs sent and not yet received
    jobs,        \* the streams of the jobs sent, by job id
    started,     \* job id -> how many times a worker received it
    finished,    \* job id -> how many times its closure ended
    joinIdx,     \* the position of Drop's loop over the workers
    joined,      \* the workers whose thread Drop has joined
    queuedAtDrop,\* the jobs in the channel when the sender was dropped
    routes,      \* the route index, ROUTES of main.rs
    tree,        \* the files under pages/ when the server starts
    unreadable,  \* the directories that read_dir cannot read
    walkState,   \* Router::new: "start", "walking", "done", "panicked"
    stack,       \* the calls of read_path in progress, innermost last
    log,         \* the debug! lines of read_path: page and path of each insert
    errors,      \* the number of error! lines of read_path
    rfo,         \* a call of remove_first_occurrence: arguments and result
    served       \* the last connection handled and what the handler did

poolVars == <<size, poolState, acceptor, sender, nextId, pc, cur, mutex, queue,
              jobs, started, finished, joinIdx, joined, queuedAtDrop>>
serverVars == <<routes, tree, unreadable, walkState, stack, log, errors, rfo, served>>
vars == <<poolVars, serverVars>>

NoWorker == -1

\* the threads spawned so far
Spawned == DOMAIN pc
\* a worker's thread has ended, and with it the closure's Arc of the receiver
Ended(w) == pc[w] \in {"done", "panicked"}
\* the receiver is deallocated when the last Arc is: the one ThreadPool::new
\* holds until it returns and the one of each worker's closure
ReceiverAlive ==
    \/ poolState = "spawning"
    \/ \E w \in Spawned : ~Ended(w)

(***************************************************************************)
(* ThreadPool::new                                                         *)
(***************************************************************************)
\* ThreadPool::new without its assertion
AssertSizeAlways(n) == TRUE
\* assert!(size > 0)
AssertSize(n) == n > 0

\* the range 0..=size, one worker too many
WorkerIdsInclusive(n) == 0..n
\* the range 0..size of the loop that spawns the workers
WorkerIds(n) == 0..(n - 1)

PoolInit ==
    /\ size \in 0..MaxSize
    /\ poolState = "none"
    /\ acceptor = "running"
    /\ sender = "none"
    /\ nextId = 0
    /\ pc = <<>>
    /\ cur = <<>>
    /\ mutex = NoWorker
    /\ queue = <<>>
    /\ jobs = <<>>
    /\ started = <<>>
    /\ finished = <<>>
    /\ joinIdx = 0
    /\ joined = {}
    /\ queuedAtDrop = {}

\* the assertion fails: the call panics before anything is created
NewAssertFails ==
    /\ poolState = "none"
    /\ ~AssertSize(size)
    /\ poolState' = "ctor_panicked"
    /\ UNCHANGED <<size, acceptor, sender, nextId, pc, cur, mutex, queue, jobs,
                   started, finished, joinIdx, joined, queuedAtDrop, serverVars>>

\* the assertion holds: mpsc::channel() and the Arc<Mutex<Receiver>>
NewChannel ==
    /\ poolState = "none"
    /\ AssertSize(size)
    /\ poolState' = "spawning"
    /\ sender' = "open"
    /\ nextId' = 0
    /\ UNCHANGED <<size, acceptor, pc, cur, mutex, queue, jobs, started,
                   finished, joinIdx, joined, queuedAtDrop, serverVars>>

\* one turn of the loop: Worker::new(id, ..) spawns the thread
NewSpawn ==
    /\ poolState = "spawning"
    /\ nextId \in WorkerIds(size)
    /\ pc' = (nextId :> "lock") @@ pc
    /\ cur' = (nextId :> 0) @@ cur
    /\ nextId' = nextId + 1
    /\ UNCHANGED <<size, poolState, acceptor, sender, mutex, queue, jobs,
                   started, finished, joinIdx, joined, queuedAtDrop, serverVars>>

\* the loop is over: the pool is returned
NewReturn ==
    /\ poolState = "spawning"
    /\ nextId \notin WorkerIds(size)
    /\ poolState' = "alive"
    /\ UNCHANGED <<size, acceptor, sender, nextId, pc, cur, mutex, queue, jobs,
                   started, finished, joinIdx, joined, queuedAtDrop, serverVars>>

(***************************************************************************)
(* ThreadPool::execute, called by main for each accepted stream            *)
(***************************************************************************)
\* a channel that gives the newest message first
SendInFront(q, j) == <<j>> \o q
\* Sender::send: the message goes behind those already in the channel
Send(q, j) == Append(q, j)

\* the send succeeds: the job is in the channel
ExecuteOk(conn) ==
    /\ poolState = "alive"
    /\ acceptor = "running"
    /\ Len(jobs) < MaxJobs
    /\ ReceiverAlive
    /\ jobs' = Append(jobs, conn)
    /\ queue' = Send(queue, Len(jobs) + 1)
    /\ started' = Append(started, 0)
    /\ finished' = Append(finished, 0)
    /\ UNCHANGED <<size, poolState, acceptor, sender, nextId, pc, cur, mutex,
                   joinIdx, joined, queuedAtDrop, serverVars>>

\* the receiver is gone: send gives Err and the unwrap panics in the caller
ExecuteFails ==
    /\ poolState = "alive"
    /\ acceptor = "running"
    /\ Len(jobs) < MaxJobs
    /\ ~ReceiverAlive
    /\ acceptor' = "panicked"
    /\ UNCHANGED <<size, poolState, sender, nextId, pc, cur, mutex, queue, jobs,
                   started, finished, joinIdx, joined, queuedAtDrop, serverVars>>

(***************************************************************************)
(* The worker's loop, Worker::new                                          *)
(***************************************************************************)
\* the guard kept alive past the statement, as a `while let` would keep it
GuardKept(w) == w
\* the holder of the mutex once `receiver.lock().unwrap().recv()` is over:
\* the guard is a temporary of the statement and is dropped at its end
GuardAfterRecv(w) == NoWorker

\* the closure without its loop: the thread ends after its first job
BreakAfterJob == "done"
\* where the worker goes when job() returns: round the loop again
AfterJobReturns == "lock"

\* the job of main's closure, handle_connection(stream), can return: for some
\* result of reading the mapped file and of the write it does not panic
MayReturn(conn) ==
    \E rd \in ReadResults, wr \in BOOLEAN :
        ~handle_connection(conn, routes, rd, wr).panicked
\* the job can panic: one of the unwraps of handle_connection fails
MayPanic(conn) ==
    \E rd \in ReadResults, wr \in BOOLEAN :
        handle_connection(conn, routes, rd, wr).panicked

\* a lock that lets a thread in whoever holds it
LockAlwaysFree == TRUE
\* Mutex::lock blocks until no thread holds the guard
LockFree == mutex = NoWorker

\* receiver.lock(): the worker gets the mutex.  No thread panics while it
\* holds the guard (recv does not panic), so the mutex is never poisoned and
\* the unwrap of the lock's result does not panic.
Lock(w) ==
    /\ pc[w] = "lock"
    /\ LockFree
    /\ mutex' = w
    /\ pc' = [pc EXCEPT ![w] = "recv"]
    /\ UNCHANGED <<size, poolState, acceptor, sender, nextId, cur, queue, jobs,
                   started, finished, joinIdx, joined, queuedAtDrop, serverVars>>

\* recv() gives Ok(job): the first job of the channel
RecvJob(w) ==
    /\ pc[w] = "recv"
    /\ mutex = w
    /\ queue # <<>>
    /\ cur' = [cur EXCEPT ![w] = Head(queue)]
    /\ queue' = Tail(queue)
    /\ started' = [started EXCEPT ![Head(queue)] = @ + 1]
    /\ mutex' = GuardAfterRecv(w)
    /\ pc' = [pc EXCEPT ![w] = "exec"]
    /\ UNCHANGED <<size, poolState, acceptor, sender, nextId, jobs, finished,
                   joinIdx, joined, queuedAtDrop, serverVars>>

\* recv() gives Err: the channel is empty and its sender dropped; break
RecvClosed(w) ==
    /\ pc[w] = "recv"
    /\ mutex = w
    /\ queue = <<>>
    /\ sender = "dropped"
    /\ mutex' = GuardAfterRecv(w)
    /\ pc' = [pc EXCEPT ![w] = "done"]
    /\ UNCHANGED <<size, poolState, acceptor, sender, nextId, cur, queue, jobs,
                   started, finished, joinIdx, joined, queuedAtDrop, serverVars>>

\* what the worker does when job() returns: the match arm is over
JobReturnsStep(w) ==
    /\ pc[w] = "exec"
    /\ finished' = [finished EXCEPT ![cur[w]] = @ + 1]
    /\ cur' = [cur EXCEPT ![w] = 0]
    /\ pc' = [pc EXCEPT ![w] = AfterJobReturns]
    /\ UNCHANGED <<size, poolState, acceptor, sender, nextId, mutex, queue,
                   jobs, started, joinIdx, joined, queuedAtDrop, serverVars>>

\* what becomes of the worker when job() panics: nothing in the loop catches
\* it, the thread unwinds and ends
JobPanicsStep(w) ==
    /\ pc[w] = "exec"
    /\ pc' = [pc EXCEPT ![w] = "panicked"]
    /\ UNCHANGED <<size, poolState, acceptor, sender, nextId, cur, mutex, queue,
                   jobs, started, finished, joinIdx, joined, queuedAtDrop, serverVars>>

\* job() returns: handle_connection wrote its response
JobReturns(w) ==
    /\ pc[w] = "exec"
    /\ MayReturn(jobs[cur[w]]) = TRUE
    /\ JobReturnsStep(w)

\* job() panics
JobPanics(w) ==
    /\ pc[w] = "exec"
    /\ MayPanic(jobs[cur[w]]) = TRUE
    /\ JobPanicsStep(w)

(***************************************************************************)
(* impl Drop for ThreadPool                                                *)
(***************************************************************************)
\* the handle dropped without a join: Drop does not wait for the thread
JoinDetached(st) == TRUE
\* thread.join() returns once the thread has ended
JoinReturns(st) == st \in {"done", "panicked"}

\* drop(self.sender.take()). The pool is dropped by its owner, or by the
\* unwinding of the owner when execute panicked.
DropBegin ==
    /\ poolState = "alive"
    /\ poolState' = "dropping"
    /\ sender' = "dropped"
    /\ queuedAtDrop' = {queue[i] : i \in 1..Len(queue)}
    /\ joinIdx' = 0
    /\ UNCHANGED <<size, acceptor, nextId, pc, cur, mutex, queue, jobs,
                   started, finished, joined, serverVars>>

\* one turn of the loop over self.workers: join gives Ok
JoinOk ==
    /\ poolState = "dropping"
    /\ joinIdx < nextId
    /\ JoinReturns(pc[joinIdx])
    /\ pc[joinIdx] # "panicked"
    /\ joined' = joined \cup {joinIdx}
    /\ joinIdx' = joinIdx + 1
    /\ UNCHANGED <<size, poolState, acceptor, sender, nextId, pc, cur, mutex,
                   queue, jobs, started, finished, queuedAtDrop, serverVars>>

\* join gives Err, the worker's thread panicked: the unwrap panics in Drop
JoinPanics ==
    /\ poolState = "dropping"
    /\ joinIdx < nextId
    /\ JoinReturns(pc[joinIdx])
    /\ pc[joinIdx] = "panicked"
    /\ joined' = joined \cup {joinIdx}
    /\ poolState' = "drop_panicked"
    /\ UNCHANGED <<size, acceptor, sender, nextId, pc, cur, mutex, queue, jobs,
                   started, finished, joinIdx, queuedAtDrop, serverVars>>

\* the loop is over: drop returns
DropReturn ==
    /\ poolState = "dropping"
    /\ joinIdx = nextId
    /\ poolState' = "dropped"
    /\ UNCHANGED <<size, acceptor, sender, nextId, pc, cur, mutex, queue, jobs,
                   started, finished, joinIdx, joined, queuedAtDrop, serverVars>>

(***************************************************************************)
(* Router::new, init_routes and read_path: the walk of pages/ at startup,  *)
(* and the dispatcher on the index it built.                               *)
(***************************************************************************)
\* before the first connection: nothing accepted, nothing handled
NoneServed == [conn |-> Conn(<<>>), state |-> "none", rd |-> ReadErr,
               outcome |-> Returned(<<>>)]

\* read_path that goes on when a directory cannot be read or named
ReadPathNeverPanics(dir) == FALSE
\* the head of read_path(dir): root_path and root_page, then dir.read_dir().
\* The unwrap of to_str and the expect of read_dir panic.
ReadPathPanics(dir) == to_str(dir) = NotUtf8 \/ dir \in unreadable
Frame(dir) ==
    [dir |-> dir,
     root_page |-> remove_first_occurrence(to_str(dir), Pages),
     todo |-> Entries(tree, dir)]

ServeInit ==
    /\ PoolInit
    /\ size = MaxSize
    /\ tree \in Trees
    /\ unreadable \in {{}} \cup {{d} : d \in Dirs(tree)}
    /\ walkState = "start"
    /\ stack = <<>>
    /\ routes = <<>>
    /\ log = <<>>
    /\ errors = 0
    /\ rfo = NoCall
    /\ served = NoneServed

\* Router::new -> init_routes -> read_path(pages)
InitRoutes ==
    /\ walkState = "start"
    /\ IF ReadPathPanics(<<Pages>>)
       THEN walkState' = "panicked" /\ stack' = stack
       ELSE walkState' = "walking" /\ stack' = <<Frame(<<Pages>>)>>
    /\ UNCHANGED <<poolVars, routes, tree, unreadable, log, errors, rfo, served>>

\* one turn of the loop of read_path on an entry that is a directory: the
\* recursive call.  read_dir gives the entries in no stated order.
VisitDir(e) ==
    /\ walkState = "walking"
    /\ e \in stack[Len(stack)].todo
    /\ is_dir(tree, e)
    /\ IF ReadPathPanics(e)
       THEN walkState' = "panicked" /\ stack' = stack
       ELSE /\ walkState' = walkState
            /\ stack' = Append([stack EXCEPT ![Len(stack)].todo = @ \ {e}], Frame(e))
    /\ UNCHANGED <<poolVars, routes, tree, unreadable, log, errors, rfo, served>>

\* one turn of the loop on an entry that is a file: it is put in the map,
\* or only an error is logged when its path is no UTF-8
VisitFile(e) ==
    /\ walkState = "walking"
    /\ e \in stack[Len(stack)].todo
    /\ ~is_dir(tree, e)
    /\ stack' = [stack EXCEPT ![Len(stack)].todo = @ \ {e}]
    /\ LET p == to_str(e)
           key == RouteKey(e, p, stack[Len(stack)].root_page)
       IN  IF p = NotUtf8
           THEN routes' = routes /\ log' = log /\ errors' = errors + 1
           ELSE /\ routes' = MapInsert(routes, key, p)
                /\ log' = Append(log, [page |-> key, path |-> p])
                /\ errors' = errors
    /\ UNCHANGED <<poolVars, tree, unreadable, walkState, rfo, served>>

\* the loop of read_path is over: it returns, and with the outermost call
\* init_routes and Router::new return
ReadPathReturn ==
    /\ walkState = "walking"
    /\ stack[Len(stack)].todo = {}
    /\ stack' = SubSeq(stack, 1, Len(stack) - 1)
    /\ walkState' = IF Len(stack) = 1 THEN "done" ELSE walkState
    /\ UNCHANGED <<poolVars, routes, tree, unreadable, log, errors, rfo, served>>

\* listener.incoming() gives a stream, once ROUTES is built
Accept(conn) ==
    /\ walkState = "done"
    /\ served.state # "accepted"
    /\ served' = [conn |-> conn, state |-> "accepted", rd |-> ReadErr,
                  outcome |-> Returned(<<>>)]
    /\ UNCHANGED <<poolVars, routes, tree, unreadable, walkState, stack, log, errors, rfo>>

\* handle_connection on the accepted stream, with the index as built
Serve(rd, wr) ==
    /\ served.state = "accepted"
    /\ served' = [served EXCEPT !.state = "handled", !.rd = rd,
                     !.outcome = handle_connection(served.conn, routes, rd, wr)]
    /\ UNCHANGED <<poolVars, routes, tree, unreadable, walkState, stack, log, errors, rfo>>

ServeNext ==
    \/ InitRoutes
    \/ \E e \in CandidateFiles \cup Dirs(tree) : VisitDir(e)
    \/ \E e \in CandidateFiles \cup Dirs(tree) : VisitFile(e)
    \/ ReadPathReturn
    \/ \E conn \in ServeConns : Accept(conn)
    \/ \E rd \in ReadResults, wr \in BOOLEAN : Serve(rd, wr)

\* the server from its start: the walk, then the dispatcher
SpecServe == ServeInit /\ [][ServeNext]_vars

(***************************************************************************)
(* The pool's specification: main from ThreadPool::new on, with ROUTES     *)
(* already built.                                                          *)
(***************************************************************************)
Init ==
    /\ PoolInit
    /\ routes = RootOnlyRoutes
    /\ tree = {<<Pages, IndexHtml>>}
    /\ unreadable = {}
    /\ walkState = "done"
    /\ stack = <<>>
    /\ log = <<[page |-> <<"/">>, path |-> PagesIndexHtml]>>
    /\ errors = 0
    /\ rfo = NoCall
    /\ served = NoneServed

Next ==
    \/ NewAssertFails
    \/ NewChannel
    \/ NewSpawn
    \/ NewReturn
    \/ \E conn \in PoolConns : ExecuteOk(conn)
    \/ ExecuteFails
    \/ \E w \in Spawned : Lock(w)
    \/ \E w \in Spawned : RecvJob(w)
    \/ \E w \in Spawned : RecvClosed(w)
    \/ \E w \in Spawned : JobReturns(w)
    \/ \E w \in Spawned : JobPanics(w)
    \/ DropBegin
    \/ JoinOk
    \/ JoinPanics
    \/ DropReturn

Spec == Init /\ [][Next]_vars

\* The scheduling of the threads: a thread that can take a step takes it in
\* the end.  A worker that waits for the mutex gets it if it is free again
\* and again; recv returns when a job is there or the channel is closed; a
\* job that was started comes to its end, by returning or by panicking (a
\* step out of job() is a step of JobReturns or of JobPanics, and one of the
\* two can be taken, see JobCanEnd); the thread that drops the pool goes on
\* with its joins.
WorkerFairness(w) ==
    /\ SF_vars(w \in Spawned /\ Lock(w))
    /\ WF_vars(w \in Spawned /\ RecvJob(w))
    /\ WF_vars(w \in Spawned /\ RecvClosed(w))
    /\ WF_vars(w \in Spawned /\ (JobReturnsStep(w) \/ JobPanicsStep(w)))
DropFairness == WF_vars(JoinOk \/ JoinPanics) /\ WF_vars(DropReturn)
SpecFair ==
    Spec /\ DropFairness /\ \A w \in 0..(MaxSize - 1) : WorkerFairness(w)

(***************************************************************************)
(* remove_first_occurrence as a function of its two arguments: the inputs  *)
(* are made of at most MaxChunks pieces, the patterns are not empty.       *)
(***************************************************************************)
MaxChunks == 3
Sub == <<"s", "u", "b">>
Chunks == {Pages, Sub, IndexHtml, <<"/">>, <<"x">>}
Inputs == {Concat(c) : c \in UNION {[1..n -> Chunks] : n \in 0..MaxChunks}}
Patterns == {Pages, <<"/">>, <<"x">>, <<"s">>}

\* the arguments of a call
RfoInit ==
    /\ PoolInit
    /\ size = MaxSize
    /\ routes = RootOnlyRoutes
    /\ tree = {<<Pages, IndexHtml>>}
    /\ unreadable = {}
    /\ walkState = "done"
    /\ stack = <<>>
    /\ log = <<[page |-> <<"/">>, path |-> PagesIndexHtml]>>
    /\ errors = 0
    /\ served = NoneServed
    /\ rfo \in {[input |-> i, pattern |-> pat, result |-> <<>>, done |-> FALSE] :
                  i \in Inputs, pat \in Patterns}

\* the call returns
Call ==
    /\ ~rfo.done
    /\ rfo' = [rfo EXCEPT !.result = remove_first_occurrence(rfo.input, rfo.pattern),
                          !.done = TRUE]
    /\ UNCHANGED <<poolVars, routes, tree, unreadable, walkState, stack, log,
                   errors, served>>

RfoNext == Call
SpecRfo == RfoInit /\ [][RfoNext]_vars

(***************************************************************************)
(* Properties of the pool.                                                 *)
(***************************************************************************)
\* the workers that are running a job
Executing == {w \in Spawned : pc[w] = "exec"}
JobIds == 1..Len(jobs)

\* What holds of C1 in the code: no job is received twice or by two workers,
\* and once Drop has returned (every join gave Ok) the channel is empty and
\* every job sent has been received and has finished.
JobsRunOnceWhenDropReturns ==
    /\ \A j \in JobIds : started[j] <= 1 /\ finished[j] <= started[j]
    /\ \A w, v \in Spawned : (w # v /\ cur[w] # 0) => cur[w] # cur[v]
    /\ poolState = "dropped" =>
          /\ queue = <<>>
          /\ \A j \in JobIds : started[j] = 1 /\ finished[j] = 1

\* C1: every job sent with execute is received by exactly one worker and run
\* exactly once, all of them by the time Drop returns; the jobs still in the
\* channel when the sender is dropped are delivered and run, not discarded:
\* once the sender is dropped and the workers have left their loops, none of
\* those jobs is left unreceived.
C1_EveryJobRunsOnce ==
    /\ JobsRunOnceWhenDropReturns
    /\ (sender = "dropped" /\ \A w \in Spawned : Ended(w)) =>
          \A j \in queuedAtDrop : started[j] = 1

\* C2: a panic inside a job does not end the worker; a worker ends only when
\* the sending side of the channel has been closed.
C2_WorkerEndsOnlyOnChannelClosure ==
    \A w \in Spawned : Ended(w) => (pc[w] = "done" /\ sender = "dropped")

\* C3: while the pool is alive the receiver is never gone, and the send in
\* execute never fails in the acceptor.
C3_SendNeverFailsWhileAlive ==
    /\ poolState = "alive" => ReceiverAlive
    /\ acceptor # "panicked"

\* C4: once Drop has returned, every worker of the pool has ended and has been
\* joined; none waits for the mutex, receives or runs a job.
C4_NoWorkerRunsAfterDrop ==
    poolState = "dropped" =>
        /\ Spawned = WorkerIds(size)
        /\ \A w \in Spawned : Ended(w) /\ w \in joined
        /\ mutex = NoWorker

\* Drop has returned for a pool of several workers that ran a job
C4_Witness ==
    /\ poolState = "dropped"
    /\ Cardinality(Spawned) >= 2
    /\ \E j \in JobIds : finished[j] = 1

\* C5: ThreadPool::new(0) panics before the channel exists and before any
\* worker is spawned, and gives no pool; for a size of 1 or more it gives a
\* pool with exactly the workers 0..size-1.
C5_NewFailsOnZeroOnly ==
    /\ (size = 0 /\ poolState # "none") =>
          /\ poolState = "ctor_panicked"
          /\ sender = "none"
          /\ Spawned = {}
    /\ size >= 1 => poolState # "ctor_panicked"
    /\ (size >= 1 /\ poolState \notin {"none", "spawning"}) =>
          /\ Spawned = 0..(size - 1)
          /\ Cardinality(Spawned) = size

\* ThreadPool::new(0) has panicked
C5_Witness == size = 0 /\ poolState = "ctor_panicked"

\* C6: the mutex around the receiver does not serialize the jobs: while one
\* worker runs a job, another worker that waits for the mutex can take it
\* (nobody being in the receive call), so two workers can run jobs at once.
C6_MutexDoesNotSerializeJobs ==
    \A w, v \in Spawned :
        ( /\ w # v
          /\ pc[w] = "exec"
          /\ pc[v] = "lock"
          /\ \A u \in Spawned : pc[u] # "recv" )
        => ENABLED Lock(v)

\* two different workers run jobs at the same time
C6_Witness ==
    /\ size >= 2
    /\ \E w, v \in Spawned :
          w # v /\ pc[w] = "exec" /\ pc[v] = "exec" /\ cur[w] # cur[v]

\* C7: at most `size` jobs run at any time, and while all the workers run
\* jobs no job of the channel is started: it stays there until one of the
\* workers is through with its job.
C7_AtMostSizeJobsRun ==
    /\ [](Cardinality(Executing) <= size)
    /\ [][ (poolState # "none" /\ Cardinality(Executing) = size)
             => /\ \A j \in JobIds : started'[j] = started[j]
                /\ \A i \in 1..Len(queue) : queue'[i] = queue[i] ]_vars

\* every worker of a pool of two runs a job and a third job waits in the
\* channel
C7_Witness ==
    /\ size >= 2
    /\ Cardinality(Executing) = size
    /\ queue # <<>>

\* the first line of the stream is missing
NoRequestLine(conn) == LinesNext(conn) \in {NoLine, IoError}
\* the first line holds fewer than two tokens
FewTokens(conn) == ~NoRequestLine(conn) /\ Len(split_whitespace(LinesNext(conn))) < 2
\* the path of the request is in the index, so that its file is read
RouteHit(conn) ==
    /\ ~NoRequestLine(conn)
    /\ ~FewTokens(conn)
    /\ split_whitespace(LinesNext(conn))[2] \in DOMAIN routes

\* C8: an error of one connection (no request line, fewer than two tokens, a
\* mapped file that cannot be read) stays in its handler: the worker that ran
\* it goes back to the head of its loop and no other worker is touched.
C8_ConnectionErrorsConfined ==
    [][ \A w \in Spawned :
          ( /\ pc[w] = "exec"
            /\ pc'[w] # "exec"
            /\ \/ NoRequestLine(jobs[cur[w]])
               \/ FewTokens(jobs[cur[w]])
               \/ RouteHit(jobs[cur[w]]) )
          => /\ pc'[w] = "lock"
             /\ \A v \in Spawned \ {w} : pc'[v] = pc[v] ]_vars

(***************************************************************************)
(* Properties of the dispatcher and of the route index.                    *)
(***************************************************************************)
\* the path of the request handled last: the second token of its first line
RequestPath == split_whitespace(LinesNext(served.conn))[2]
\* the handler ran to its end and wrote a response
Responded == served.state = "handled" /\ ~served.outcome.panicked

\* the bytes "HTTP/1.1 200 OK\r\nContent-Length: "
OkHead ==
    <<"H", "T", "T", "P", "/", "1", ".", "1", " ", "2", "0", "0", " ", "O", "K", CR, LF,
      "C", "o", "n", "t", "e", "n", "t", "-", "L", "e", "n", "g", "t", "h", ":", " ">>
\* the bytes "HTTP/1.1 404 NOT FOUND\r\n\r\n"
NotFoundBytes ==
    <<"H", "T", "T", "P", "/", "1", ".", "1", " ", "4", "0", "4", " ",
      "N", "O", "T", " ", "F", "O", "U", "N", "D", CR, LF, CR, LF>>
\* a number below 100 in decimal
TwoDigits(n) ==
    IF n < 10 THEN <<DigitChar[n + 1]>>
    ELSE <<DigitChar[(n \div 10) + 1], DigitChar[(n % 10) + 1]>>

\* C9: the response written is decided by the exact lookup of the raw path in
\* the index: the 404 bytes on a miss; on a hit the status line, the
\* Content-Length header with the length of the body in bytes, a blank line
\* and the body, and nothing else.
C9_ResponseBytes ==
    Responded =>
        LET body == as_bytes(served.rd) IN
        IF \E k \in DOMAIN routes : k = RequestPath
        THEN served.outcome.written
                = OkHead \o TwoDigits(Len(body)) \o <<CR, LF, CR, LF>> \o body
        ELSE served.outcome.written = NotFoundBytes

\* a hit was answered with a body of two characters and three bytes
C9_Witness ==
    /\ Responded
    /\ RequestPath \in DOMAIN routes
    /\ served.rd = <<"h", EAcute>>

\* the last "/" of a path's text
LastSlash(p) == CHOOSE i \in 1..Len(p) : p[i] = "/" /\ \A k \in (i + 1)..Len(p) : p[k] # "/"
\* the base name of the file whose path's text is p
BaseName(p) == SubSeq(p, LastSlash(p) + 1, Len(p))
\* the URL key of the directory that holds the file: "/" for pages itself,
\* "/a/b" for pages/a/b
DirKey(p) ==
    IF LastSlash(p) = Len(Pages) + 1 THEN <<"/">>
    ELSE SubSeq(p, Len(Pages) + 1, LastSlash(p) - 1)

\* C10: a file is inserted under the key of its directory exactly when its
\* base name is index.html; the key "/" exists exactly when pages/index.html
\* does, and pages/a/index.html gives the key "/a".
C10_IndexHtmlByBaseName ==
    /\ \A i \in 1..Len(log) :
          (log[i].page = DirKey(log[i].path)) <=> (BaseName(log[i].path) = IndexHtml)
    /\ walkState = "done" =>
          ((<<"/">> \in DOMAIN routes) <=> (<<Pages, IndexHtml>> \in tree))
    /\ (walkState = "done" /\ <<Pages, <<"a">>, IndexHtml>> \in tree) =>
          \E i \in 1..Len(log) :
              /\ log[i].page = <<"/", "a">>
              /\ log[i].path = JoinPath(<<Pages, <<"a">>, IndexHtml>>)

DotHtml == <<".", "h", "t", "m", "l">>
\* the text s ends with the text suf
EndsWith(s, suf) ==
    Len(s) >= Len(suf) /\ SubSeq(s, Len(s) - Len(suf) + 1, Len(s)) = suf
\* the URL form of the path's text p: p without its leading "pages"
UrlOf(p) == SubSeq(p, Len(Pages) + 1, Len(p))

\* C11: a walked file other than index.html is indexed under its URL key
\* without the suffix ".html" when its name ends in ".html", and under its
\* URL key with the suffix kept when it does not, whatever the directories
\* on its path are called.
C11_HtmlSuffixByFileName ==
    \A i \in 1..Len(log) :
        LET p == log[i].path
            name == BaseName(p)
        IN  name # IndexHtml =>
               log[i].page = IF EndsWith(name, DotHtml)
                             THEN SubSeq(UrlOf(p), 1, Len(UrlOf(p)) - Len(DotHtml))
                             ELSE UrlOf(p)

\* the three texts a key is made from: the file's path, the path without
\* the extension of the file, the path of the directory; each without its
\* one leading "pages", and "/" when nothing is left
KeyForms(p) ==
    LET dir == SubSeq(p, 1, LastSlash(p) - 1)
        name == BaseName(p)
        dots == {i \in 2..Len(name) : name[i] = "."}
        stem == IF dots = {} THEN name
                ELSE SubSeq(name, 1, (CHOOSE i \in dots : \A k \in dots : k <= i) - 1)
        strip(x) == IF UrlOf(x) = <<>> THEN <<"/">> ELSE UrlOf(x)
    IN  {strip(p), strip(dir \o <<"/">> \o stem), strip(dir)}

\* C12: every entry of the index has a key that begins with "/" and is the
\* path pages/X, after the handling of the extension, with its one leading
\* "pages" removed and the rest unchanged ("/" when nothing is left), and a
\* value that is the file's path and begins with "pages/"; also when a later
\* component holds "pages", as in pages/subpages/x.
C12_KeyIsPathWithoutLeadingPages ==
    /\ \A i \in 1..Len(log) :
          /\ log[i].page[1] = "/"
          /\ log[i].page \in KeyForms(log[i].path)
          /\ SubSeq(log[i].path, 1, Len(Pages) + 1) = Pages \o <<"/">>
    /\ \A k \in DOMAIN routes :
          /\ k[1] = "/"
          /\ k \in KeyForms(routes[k])
          /\ SubSeq(routes[k], 1, Len(Pages) + 1) = Pages \o <<"/">>
          /\ \E f \in tree : to_str(f) = routes[k]

\* the walk is over and pages/subpages/x is in the index under /subpages/x
C12_Witness ==
    /\ walkState = "done"
    /\ <<"/", "s", "u", "b", "p", "a", "g", "e", "s", "/", "x">> \in DOMAIN routes
    /\ routes[<<"/", "s", "u", "b", "p", "a", "g", "e", "s", "/", "x">>]
          = JoinPath(<<Pages, <<"s", "u", "b", "p", "a", "g", "e", "s">>, <<"x">> >>)

\* the paths of the files of the tree that have a text form
Utf8Files == {to_str(f) : f \in {g \in tree : to_str(g) # NotUtf8}}
\* the paths the walk has put in the index so far
Logged == {log[i].path : i \in 1..Len(log)}
\* a connection has been accepted
Accepting == served.state # "none"

KeysOf(f) == {k \in DOMAIN routes : routes[k] = to_str(f)}
\* the insert of the file f was replaced by the insert of a file visited later
Overwritten(f) ==
    \E i, j \in 1..Len(log) :
        i < j /\ log[i].path = to_str(f) /\ log[j].page = log[i].page
\* exactly one key for f, none when a later file took its key
OneKeyUnlessOverwritten(f) ==
    IF Overwritten(f) THEN KeysOf(f) = {} ELSE Cardinality(KeysOf(f)) = 1

Receiving == {w \in Spawned : pc[w] = "recv"}

\* C15: at most one worker holds the mutex of the receiver, the one that is
\* inside the receive call; no worker holds it while it runs a job; the mutex
\* is released in the step in which the receive returns, before job() is
\* called.
C15_ReceiverMutexDiscipline ==
    /\ [](/\ Cardinality(Receiving) <= 1
          /\ mutex \in Spawned \cup {NoWorker}
          /\ \A w \in Spawned : (mutex = w) <=> (pc[w] = "recv")
          /\ \A w \in Executing : mutex # w)
    /\ [][ \A w \in Spawned :
             (pc[w] = "recv" /\ pc'[w] # "recv")
                => (mutex' = NoWorker /\ pc'[w] \in {"exec", "done"}) ]_vars

\* a worker is blocked in the receive call, with the mutex, on the empty
\* channel while another worker runs a job, the first job being over
C15_Witness ==
    \E w, v \in Spawned :
        /\ pc[w] = "recv"
        /\ mutex = w
        /\ queue = <<>>
        /\ pc[v] = "exec"
        /\ finished # <<>> /\ finished[1] = 1

\* a job that runs can end: handle_connection returns or panics
JobCanEnd ==
    \A w \in Executing : MayReturn(jobs[cur[w]]) \/ MayPanic(jobs[cur[w]])

\* What holds of C16 in the code: a teardown that has begun ends with Drop
\* returning unless a worker's thread has panicked.
TeardownReturnsUnlessWorkerPanicked ==
    (poolState = "dropping")
        ~> (poolState = "dropped" \/ \E w \in Spawned : pc[w] = "panicked")

\* C16: Drop releases the sender once and before the first join; the jobs
\* coming to their end and the threads being scheduled fairly, every worker
\* then sees the closed channel and leaves its loop, and Drop returns, the
\* workers joined in the order of their creation.
C16_TeardownTerminates ==
    /\ [][sender = "dropped" => sender' = "dropped"]_vars
    /\ [](joined # {} => sender = "dropped")
    /\ [](\A w \in joined : \A v \in 0..(w - 1) : v \in joined)
    /\ \A w \in 0..(MaxSize - 1) :
          (poolState = "dropping" /\ w \in Spawned)
              ~> (w \in Spawned /\ pc[w] = "done")
    /\ (poolState = "dropping") ~> (poolState = "dropped")

\* C17: the channel delivers the jobs in the order of the execute calls (a
\* job's number is the rank of its execute call): a job is received only
\* when every job sent before it has been received, and the job a receive
\* gives is the oldest one not yet received.  Completions are in no order
\* (C17_Witness).
C17_FifoDelivery ==
    /\ [](\A a, b \in JobIds : (a < b /\ started[b] >= 1) => started[a] >= 1)
    /\ [][ \A w \in Spawned :
             (pc[w] = "recv" /\ pc'[w] = "exec")
                => /\ \A a \in JobIds : a < cur'[w] => started[a] >= 1
                   /\ started[cur'[w]] = 0 ]_vars

\* two jobs sent one after the other were received in that order by two
\* workers, and the second is over while the first still runs
C17_Witness ==
    \E a, b \in JobIds :
        /\ a < b
        /\ started[a] = 1 /\ started[b] = 1
        /\ finished[a] = 0 /\ finished[b] = 1
        /\ \E w \in Executing : cur[w] = a

\* the workers whose thread a panicking job has ended
PanickedWorkers == {w \in Spawned : pc[w] = "panicked"}

\* C18: a job panics only when its worker does not hold the mutex of the
\* receiver, so no panicked worker poisons it or leaves it locked; after a
\* panic a live worker that waits for the free mutex can take it, and one that
\* is in the receive call with a job in the channel receives it and runs it.
C18_PanicNeverHoldsMutex ==
    /\ [](\A w \in Spawned : Ended(w) => mutex # w)
    /\ [][ \A w \in Spawned :
             (pc[w] = "exec" /\ pc'[w] = "panicked")
                => (mutex # w /\ mutex' = mutex) ]_vars
    /\ [](\A v \in Spawned :
             (PanickedWorkers # {} /\ pc[v] = "lock" /\ mutex = NoWorker)
                => ENABLED Lock(v))
    /\ [](\A v \in Spawned :
             (PanickedWorkers # {} /\ pc[v] = "recv" /\ queue # <<>>)
                => ENABLED RecvJob(v))

\* a worker's job has panicked, and the other worker, having finished the
\* next job, runs the one sent after it
C18_Witness ==
    \E w \in PanickedWorkers, v \in Executing :
        /\ cur[w] < cur[v]
        /\ \E j \in JobIds : cur[w] < j /\ j < cur[v] /\ finished[j] = 1
        /\ mutex = NoWorker

\* the job j has been received and is no longer running
Executed(j) ==
    /\ j \in JobIds
    /\ started[j] = 1
    /\ \A w \in Executing : cur[w] # j

\* What holds of C19 in the code: while the pool is alive a job that was sent
\* is received and run to its end, unless a worker's thread has panicked.
JobsRunUnlessWorkerPanicked ==
    \A j \in 1..MaxJobs :
        (j \in JobIds)
            ~> (Executed(j) \/ poolState # "alive" \/ PanickedWorkers # {})

\* C19: while the pool is alive and is not torn down, the jobs coming to
\* their end and the threads being scheduled fairly, every job that was sent
\* is received and run to its end; no job is in the channel of a living pool
\* with none of its workers left to receive it.
C19_EveryJobEventuallyRuns ==
    /\ [](( poolState = "alive" /\ queue # <<>>)
             => \E w \in Spawned : ~Ended(w))
    /\ \A j \in 1..MaxJobs :
          (j \in JobIds) ~> (Executed(j) \/ poolState # "alive")

\* the input without its first occurrence of the pattern, the text before it
\* and the text after it kept; `/` when nothing is left; the input itself
\* when the pattern does not occur
WithoutFirstOccurrence(input, pattern) ==
    LET index == Find(input, pattern) IN
    IF index = 0
    THEN input
    ELSE LET kept == SubSeq(input, 1, index - 1)
                        \o SubSeq(input, index + Len(pattern), Len(input))
         IN  IF kept = <<>> THEN <<"/">> ELSE kept

\* What holds of C20 in the code: the result is as claimed when the pattern
\* does not occur, and when the input begins with the pattern and does not go
\* on with the pattern again, as in the test: (pages/index.html, pages) gives
\* /index.html.
RemovesLeadingPattern ==
    rfo.done =>
        LET index == Find(rfo.input, rfo.pattern)
            after == SubSeq(rfo.input, Len(rfo.pattern) + 1, Len(rfo.input))
        IN  /\ index = 0 => rfo.result = rfo.input
            /\ (index = 1 /\ Find(after, rfo.pattern) # 1)
                  => rfo.result = WithoutFirstOccurrence(rfo.input, rfo.pattern)
            /\ (rfo.input = Pages \o <<"/">> \o IndexHtml /\ rfo.pattern = Pages)
                  => rfo.result = <<"/">> \o IndexHtml

\* C20: for every input and pattern remove_first_occurrence gives the input
\* with its first occurrence of the pattern removed and nothing else, `/`
\* when that is empty, and the input itself when the pattern does not occur.
C20_RemovesFirstOccurrenceOnly ==
    rfo.done => rfo.result = WithoutFirstOccurrence(rfo.input, rfo.pattern)

====
